---------------------------- MODULE Spec2Model ----------------------------
(***************************************************************************)
(* A model of gitstats (vladimirshefer/gitstats): the file clustering of   *)
(* src/util/file_tree_clustering.ts (the two top-down variants and the     *)
(* graph variant), the blame parser of src/git.ts and the per-file loop of *)
(* src/index.ts.                                                           *)
(*                                                                         *)
(* Strings are sequences of UTF-16 code units (naturals), so that split,   *)
(* join, startsWith, indexOf and the regular expressions of the source are *)
(* computed character by character.                                        *)
(***************************************************************************)
EXTENDS Integers, Sequences, FiniteSets, TLC

---------------------------------------------------------------------------
(* Bounds of the model *)

\* longest input list handed to clusterFiles / buildGraph
MaxFiles == 4
\* largest clusterMaxSize tried (clusterMaxSize >= clusterMinSize >= 1)
MaxClusterSize == 3
\* passes of bubbleMicroLeftoversRecursive the driver may run
MaxPasses == 4
\* hunks of a blame output
MaxHunks == 2
\* files in one directory of a repository listing
MaxDirFiles == 11
\* files at the root of a repository listing
MaxRootFiles == 1
\* orders the shuffle of forEachRepoFile is drawn from (rotations)
MaxRotation == 2
\* rows doProcessFile returns for a file
MaxRowsPerFile == 2
\* repositories of one run
MaxRepos == 2
\* files of one repository of a run
MaxRepoFiles == 2
\* SIGINTs sent to one run
MaxSignals == 2
\* rows of one stream consumed by aggregateRawStats
MaxStreamRows == 3
\* items of the outer source of a generator chain
MaxOuter == 3
\* items of one inner generator of flatMap
MaxInner == 2
\* length of the list handed to mostFrequent
MaxSegs == 3
\* length of the boundary list handed to bucket
MaxBuckets == 3
\* largest boundary handed to bucket
MaxBoundary == 3
\* stdout 'data' events of one child process
MaxChunks == 3

---------------------------------------------------------------------------
(* Strings *)

\* "/" : the separator of it.split("/") and path.join("/")
Slash == 47

\* "$$$notfound$$$"
NotFound == <<36, 36, 36, 110, 111, 116, 102, 111, 117, 110, 100, 36, 36, 36>>

\* the value `undefined` of an out-of-range array read (no string equals it)
Undefined == <<-1>>

Range(s) == {s[i] : i \in 1..Len(s)}

\* String.prototype.startsWith
StartsWith(s, p) ==
    /\ Len(p) <= Len(s)
    /\ \A i \in 1..Len(p) : s[i] = p[i]

\* String.prototype.indexOf for one character, 0-based, -1 when absent
IndexOf(s, c) ==
    IF \E i \in 1..Len(s) : s[i] = c
    THEN (CHOOSE i \in 1..Len(s) : s[i] = c /\ \A j \in 1..(i - 1) : s[j] # c) - 1
    ELSE -1

\* String.prototype.split for a one-character separator: "" gives [""]
RECURSIVE Split(_, _)
Split(s, sep) ==
    LET i == IndexOf(s, sep)
    IN  IF i < 0 THEN <<s>>
        ELSE <<SubSeq(s, 1, i)>> \o Split(SubSeq(s, i + 2, Len(s)), sep)

\* Array.prototype.join for a one-character separator
RECURSIVE Join(_, _)
Join(segs, sep) ==
    IF segs = <<>> THEN <<>>
    ELSE IF Len(segs) = 1 THEN segs[1]
    ELSE segs[1] \o <<sep>> \o Join(Tail(segs), sep)

IsDigit(c) == c >= 48 /\ c <= 57

RECURSIVE DecimalValue(_)
DecimalValue(s) ==
    IF s = <<>> THEN 0
    ELSE 10 * DecimalValue(SubSeq(s, 1, Len(s) - 1)) + (s[Len(s)] - 48)

\* "4294967295" = 2^32 - 1, the first number that is no array index
IndexLimit == <<52, 50, 57, 52, 57, 54, 55, 50, 57, 53>>

\* s < t for two digit strings of the same length
DigitsLess(s, t) ==
    \E i \in 1..Len(s) : s[i] < t[i] /\ \A j \in 1..(i - 1) : s[j] = t[j]

\* A property key that is a canonical array index ("0", "7", "12"; not "01"):
\* JavaScript enumerates such keys first, in ascending numeric order.
IsArrayIndex(s) ==
    /\ Len(s) >= 1
    /\ Len(s) <= Len(IndexLimit)
    /\ \A i \in 1..Len(s) : IsDigit(s[i])
    /\ (Len(s) > 1 => s[1] # 48)
    /\ (Len(s) = Len(IndexLimit) => DigitsLess(s, IndexLimit))

\* number of occurrences of x in the sequence s
Count(s, x) == Cardinality({i \in 1..Len(s) : s[i] = x})

RECURSIVE Flat(_)
Flat(seqs) == IF seqs = <<>> THEN <<>> ELSE Head(seqs) \o Flat(Tail(seqs))

\* Array.prototype.map (built element by element, as a tuple)
Map(s, Op(_)) ==
    LET F[i \in 0..Len(s)] ==
            IF i = 0 THEN <<>> ELSE Append(F[i - 1], Op(s[i]))
    IN  F[Len(s)]

\* Array.prototype.filter
Filter(s, Keep(_)) ==
    LET F[i \in 0..Len(s)] ==
            IF i = 0 THEN <<>>
            ELSE IF Keep(s[i]) THEN Append(F[i - 1], s[i]) ELSE F[i - 1]
    IN  F[Len(s)]

\* x put into a sequence sorted by Key, after every element whose key is not
\* larger (what keeps the sort stable)
InsertByKey(sorted, x, Key(_)) ==
    LET p == Cardinality({i \in 1..Len(sorted) : Key(sorted[i]) <= Key(x)})
    IN  SubSeq(sorted, 1, p) \o <<x>> \o SubSeq(sorted, p + 1, Len(sorted))

\* Array.prototype.sort with a numeric key, ascending: stable
SortAscBy(s, Key(_)) ==
    LET F[i \in 0..Len(s)] ==
            IF i = 0 THEN <<>> ELSE InsertByKey(F[i - 1], s[i], Key)
    IN  F[Len(s)]

---------------------------------------------------------------------------
(* Input paths *)

\* "a"  : a path without "/" that is also a prefix of other paths
P_a == <<97>>
\* "a/x"
P_a_x == <<97, 47, 120>>
\* "a/y"
P_a_y == <<97, 47, 121>>
\* "b/x"
P_b_x == <<98, 47, 120>>
\* "1/x" : a directory whose name is an array index
P_1_x == <<49, 47, 120>>
\* "a/b/x"
P_a_b_x == <<97, 47, 98, 47, 120>>
\* "a/b/b/x"
P_a_b_b_x == <<97, 47, 98, 47, 98, 47, 120>>

\* the paths the top-down variants are run on
Paths == {P_a, P_a_x, P_a_y, P_b_x, P_a_b_x}

SeqsUpTo(S, n) == UNION {[1..k -> S] : k \in 0..n}

\* the pairs (clusterMaxSize, clusterMinSize) of the precondition
SizePairs == {mm \in (1..MaxClusterSize) \X (1..MaxClusterSize) : mm[1] >= mm[2]}

\* it => ({arr: it.split("/"), str: it})
FileInfo(str) == [arr |-> Split(str, Slash), str |-> str]

FileInfos(paths) == Map(paths, FileInfo)

Strs(fileInfos) == LET Str(fi) == fi.str IN Map(fileInfos, Str)

---------------------------------------------------------------------------
(* mostFrequent *)

\* the distinct items of arr in order of first occurrence
RECURSIVE FirstOccurrences(_)
FirstOccurrences(arr) ==
    IF arr = <<>> THEN <<>>
    ELSE LET init == FirstOccurrences(SubSeq(arr, 1, Len(arr) - 1))
             x == arr[Len(arr)]
         IN  IF x \in Range(init) THEN init ELSE Append(init, x)

\* the own keys of `counts` in for-in order: array indices ascending, then
\* the other keys in insertion order
OwnKeysOf(arr) ==
    LET keys == FirstOccurrences(arr)
        IsIdx(k) == IsArrayIndex(k)
        NotIdx(k) == ~IsArrayIndex(k)
    IN  SortAscBy(Filter(keys, IsIdx), DecimalValue) \o Filter(keys, NotIdx)

RECURSIVE ScanMax(_, _, _, _)
ScanMax(keys, arr, maxCount, item) ==
    IF keys = <<>> THEN item
    ELSE IF Count(arr, Head(keys)) > maxCount
         THEN ScanMax(Tail(keys), arr, Count(arr, Head(keys)), Head(keys))
         ELSE ScanMax(Tail(keys), arr, maxCount, item)

mostFrequent(arr) == ScanMax(OwnKeysOf(arr), arr, 0, arr[1])

---------------------------------------------------------------------------
(* Top-down clustering *)

\* it.arr[l], l 0-based
SegAt(fi, l) == IF l < Len(fi.arr) THEN fi.arr[l + 1] ELSE Undefined

\* it.arr[l] || "$$$notfound$$$"
SegOrNotFound(fi, l) ==
    IF SegAt(fi, l) = Undefined \/ SegAt(fi, l) = <<>> THEN NotFound ELSE SegAt(fi, l)

Cluster(path, fileInfos, isLeftovers, isUnclusterable) ==
    [path |-> path, files |-> fileInfos,
     isLeftovers |-> isLeftovers, isUnclusterable |-> isUnclusterable]

\* the `null` result of clusterFiles1 / clusterFilesRecursively (a non-null
\* result always holds at least one cluster)
Null == <<>>

\* the most frequent next path segment of a cluster
NextSegment(c) ==
    LET Seg(fi) == SegOrNotFound(fi, Len(c.path))
    IN  mostFrequent(Map(c.files, Seg))

\* the filter looks at the segment after the next one
NewClusterFilesNextIndex(c) ==
    LET mf == NextSegment(c)
        Same(fi) == SegAt(fi, Len(c.path) + 1) = mf
    IN  Filter(c.files, Same)

NewClusterFiles(c) ==
    LET mf == NextSegment(c)
        Same(fi) == SegAt(fi, Len(c.path)) = mf
    IN  Filter(c.files, Same)

\* RemainingFiles that also filters out the files with no segment at index l
RemainingFilesSkipsShortPaths(c) ==
    LET mf == NextSegment(c)
        Other(fi) == SegAt(fi, Len(c.path)) # mf /\ SegAt(fi, Len(c.path)) # Undefined
    IN  Filter(c.files, Other)

RemainingFiles(c) ==
    LET mf == NextSegment(c)
        Other(fi) == SegAt(fi, Len(c.path)) # mf
    IN  Filter(c.files, Other)

\* clusterFiles1 that tests only the remainder against clusterMinSize
clusterFiles1NoMinCheckOnNew(originalCluster, clusterMaxSize, clusterMinSize) ==
    IF Len(originalCluster.files) <= clusterMaxSize \/ originalCluster.isUnclusterable
    THEN Null
    ELSE LET mf == NextSegment(originalCluster)
             newClusterFiles == NewClusterFiles(originalCluster)
             remainingFiles == RemainingFiles(originalCluster)
         IN  IF Len(remainingFiles) = 0
             THEN <<Cluster(Append(originalCluster.path, mf), newClusterFiles, FALSE, FALSE)>>
             ELSE IF Len(remainingFiles) < clusterMinSize
             THEN <<[originalCluster EXCEPT !.isUnclusterable = TRUE]>>
             ELSE << Cluster(Append(originalCluster.path, mf), newClusterFiles, FALSE, FALSE),
                     Cluster(originalCluster.path, remainingFiles, TRUE, FALSE) >>

\* clusterFiles1 that gives up without marking the cluster unclusterable
clusterFiles1NeverMarks(originalCluster, clusterMaxSize, clusterMinSize) ==
    IF Len(originalCluster.files) <= clusterMaxSize \/ originalCluster.isUnclusterable
    THEN Null
    ELSE LET mf == NextSegment(originalCluster)
             newClusterFiles == NewClusterFiles(originalCluster)
             remainingFiles == RemainingFiles(originalCluster)
         IN  IF Len(remainingFiles) = 0
             THEN <<Cluster(Append(originalCluster.path, mf), newClusterFiles, FALSE, FALSE)>>
             ELSE IF Len(newClusterFiles) < clusterMinSize
                     \/ Len(remainingFiles) < clusterMinSize
             THEN <<originalCluster>>
             ELSE << Cluster(Append(originalCluster.path, mf), newClusterFiles, FALSE, FALSE),
                     Cluster(originalCluster.path, remainingFiles, TRUE, FALSE) >>

clusterFiles1(originalCluster, clusterMaxSize, clusterMinSize) ==
    IF Len(originalCluster.files) <= clusterMaxSize \/ originalCluster.isUnclusterable
    THEN Null
    ELSE LET mf == NextSegment(originalCluster)
             newClusterFiles == NewClusterFiles(originalCluster)
             remainingFiles == RemainingFiles(originalCluster)
         IN  IF Len(remainingFiles) = 0
             THEN <<Cluster(Append(originalCluster.path, mf), newClusterFiles, FALSE, FALSE)>>
             ELSE IF Len(newClusterFiles) < clusterMinSize
                     \/ Len(remainingFiles) < clusterMinSize
             THEN <<[originalCluster EXCEPT !.isUnclusterable = TRUE]>>
             ELSE << Cluster(Append(originalCluster.path, mf), newClusterFiles, FALSE, FALSE),
                     Cluster(originalCluster.path, remainingFiles, TRUE, FALSE) >>

\* .sort((a, b) => b.files.length - a.files.length)
SortBySizeDesc(clusters) ==
    LET NegSize(c) == 0 - Len(c.files)
    IN  SortAscBy(clusters, NegSize)

RECURSIVE clusterFilesRecursively(_, _, _)
clusterFilesRecursively(originalCluster, clusterMaxSize, clusterMinSize) ==
    IF Len(originalCluster.files) <= clusterMaxSize THEN Null
    ELSE IF originalCluster.isUnclusterable THEN Null
    ELSE LET mf == NextSegment(originalCluster)
             newClusterFiles == NewClusterFiles(originalCluster)
             remainingFiles == RemainingFiles(originalCluster)
             split == SortBySizeDesc(
                 << Cluster(Append(originalCluster.path, mf), newClusterFiles, FALSE, FALSE),
                    Cluster(originalCluster.path, remainingFiles, TRUE, FALSE) >>)
         IN  IF Len(remainingFiles) = 0
             THEN <<Cluster(Append(originalCluster.path, mf), newClusterFiles, FALSE, FALSE)>>
             ELSE IF Len(newClusterFiles) < clusterMinSize
             THEN <<[originalCluster EXCEPT !.isUnclusterable = TRUE]>>
             ELSE IF Len(remainingFiles) < clusterMinSize
             THEN LET subclusters == clusterFilesRecursively(
                          Cluster(Append(originalCluster.path, mf), newClusterFiles, FALSE, FALSE),
                          clusterMaxSize, 1)
                  IN  IF subclusters = Null \/ Len(subclusters) = 1
                      THEN <<[originalCluster EXCEPT !.isUnclusterable = TRUE]>>
                      ELSE split
             ELSE split

\* the two top-down variants of clusterFiles
Variants == {"clusterFilesRecursively", "clusterFiles1"}

SplitCluster(v, c, clusterMaxSize, clusterMinSize) ==
    IF v = "clusterFiles1"
    THEN clusterFiles1(c, clusterMaxSize, clusterMinSize)
    ELSE clusterFilesRecursively(c, clusterMaxSize, clusterMinSize)

\* one evaluation of clusterGroups.flatMap(...) in the while loop
FlatMapPass(v, groups, clusterMaxSize, clusterMinSize) ==
    LET Sub(originalCluster) ==
            LET subclusters ==
                    SplitCluster(v, originalCluster, clusterMaxSize, clusterMinSize)
            IN  IF subclusters # Null THEN subclusters ELSE <<originalCluster>>
    IN  Flat(Map(groups, Sub))

PassChanges(v, groups, clusterMaxSize, clusterMinSize) ==
    \E i \in 1..Len(groups) :
        SplitCluster(v, groups[i], clusterMaxSize, clusterMinSize) # Null

\* the final clusterGroups.map(...)
FileTreeCluster(cluster) ==
    [path |-> Join(cluster.path, Slash),
     files |-> Strs(cluster.files),
     weight |-> Len(cluster.files),
     isLeftovers |-> cluster.isLeftovers]

FileTreeClusters(groups) == Map(groups, FileTreeCluster)

---------------------------------------------------------------------------
(* namespace graph: the prefix tree and its bottom-up pass *)

\* the paths the tree is built from
GraphPaths == {P_a, P_a_x, P_b_x, P_1_x, P_a_b_x, P_a_b_b_x}

\* A GraphNode. `children` is the children object as the sequence of its
\* entries [k, node] in property order (Object.keys / values / entries).
GraphNode(path, children, value, size) ==
    [path |-> path, children |-> children, value |-> value, size |-> size]

HasKey(children, k) == \E i \in 1..Len(children) : children[i].k = k

KeyIndex(children, k) == CHOOSE i \in 1..Len(children) : children[i].k = k

\* children[k] = node for a key not yet present: array-index keys are kept
\* first, in ascending numeric order, the other keys in insertion order
AddKey(children, k, node) ==
    IF IsArrayIndex(k)
    THEN LET p == Cardinality({i \in 1..Len(children) :
                      IsArrayIndex(children[i].k)
                      /\ DecimalValue(children[i].k) < DecimalValue(k)})
         IN  SubSeq(children, 1, p) \o <<[k |-> k, node |-> node]>>
                 \o SubSeq(children, p + 1, Len(children))
    ELSE Append(children, [k |-> k, node |-> node])

\* delete children[k]
RemoveKey(children, k) ==
    LET Other(e) == e.k # k IN Filter(children, Other)

\* the mutation of the child object stored under k
SetChild(children, k, node) ==
    IF HasKey(children, k)
    THEN [children EXCEPT ![KeyIndex(children, k)].node = node]
    ELSE children

\* the body of files.forEach in buildGraph, for one file: the walk along
\* dirs = file.arr.slice(0, -1) and the push at its end
RECURSIVE InsertFile(_, _, _)
InsertFile(targetDir, dirs, file) ==
    IF dirs = <<>>
    THEN [targetDir EXCEPT !.value = Append(@, file)]
    ELSE LET pathSegment == Head(dirs)
             children ==
                 IF HasKey(targetDir.children, pathSegment)
                 THEN targetDir.children
                 ELSE AddKey(targetDir.children, pathSegment,
                             GraphNode(Append(targetDir.path, pathSegment), <<>>, <<>>, 0))
             next == children[KeyIndex(children, pathSegment)].node
         IN  [targetDir EXCEPT
                 !.size = @ + 1,
                 !.children = SetChild(children, pathSegment,
                                       InsertFile(next, Tail(dirs), file))]

buildGraph(fileInfos) ==
    LET F[i \in 0..Len(fileInfos)] ==
            IF i = 0 THEN GraphNode(<<>>, <<>>, <<>>, 0)
            ELSE InsertFile(F[i - 1],
                            SubSeq(fileInfos[i].arr, 1, Len(fileInfos[i].arr) - 1),
                            fileInfos[i])
    IN  F[Len(fileInfos)]

RECURSIVE flatten(_)
flatten(graphNode) ==
    IF Len(graphNode.children) = 0 THEN graphNode.value
    ELSE LET Sub(e) == flatten(e.node)
         IN  Flat(Map(graphNode.children, Sub)) \o graphNode.value

\* the forEach of bubbleMicroLeftovers over the entries the node had when
\* the loop began
RECURSIVE HoistSmallChildren(_, _, _)
HoistSmallChildren(graphNode, entries, clusterMinSize) ==
    IF entries = <<>> THEN graphNode
    ELSE LET k == Head(entries).k
             child == Head(entries).node
             emptied == [child EXCEPT !.size = @ - Len(child.value), !.value = <<>>]
         IN  IF Len(child.value) < clusterMinSize
             THEN HoistSmallChildren(
                      [graphNode EXCEPT
                          !.value = @ \o child.value,
                          !.size = @ + Len(child.value),
                          !.children = IF emptied.size = 0
                                       THEN RemoveKey(@, k)
                                       ELSE SetChild(@, k, emptied)],
                      Tail(entries), clusterMinSize)
             ELSE HoistSmallChildren(graphNode, Tail(entries), clusterMinSize)

\* bubbleMicroLeftovers without its `child.value = []`: the hoisted files stay
\* in the child as well
RECURSIVE HoistKeepingChildValue(_, _, _)
HoistKeepingChildValue(graphNode, entries, clusterMinSize) ==
    IF entries = <<>> THEN graphNode
    ELSE LET k == Head(entries).k
             child == Head(entries).node
             shrunk == [child EXCEPT !.size = @ - Len(child.value)]
         IN  IF Len(child.value) < clusterMinSize
             THEN HoistKeepingChildValue(
                      [graphNode EXCEPT
                          !.value = @ \o child.value,
                          !.size = @ + Len(child.value),
                          !.children = IF shrunk.size = 0
                                       THEN RemoveKey(@, k)
                                       ELSE SetChild(@, k, shrunk)],
                      Tail(entries), clusterMinSize)
             ELSE HoistKeepingChildValue(graphNode, Tail(entries), clusterMinSize)

bubbleMicroLeftoversKeepsChildValue(graphNode, clusterMaxSize, clusterMinSize) ==
    IF Len(graphNode.children) = 0 THEN graphNode
    ELSE IF graphNode.size <= clusterMaxSize THEN graphNode
    ELSE HoistKeepingChildValue(graphNode, graphNode.children, clusterMinSize)

\* What bubbleMicroLeftovers does to graphNode. With size <= clusterMaxSize
\* it builds and returns a flattened copy and leaves graphNode as it is (its
\* caller bubbleMicroLeftoversRecursive drops the returned object).
bubbleMicroLeftovers(graphNode, clusterMaxSize, clusterMinSize) ==
    IF Len(graphNode.children) = 0 THEN graphNode
    ELSE IF graphNode.size <= clusterMaxSize THEN graphNode
    ELSE HoistSmallChildren(graphNode, graphNode.children, clusterMinSize)

unpackSmallest(graphNode, clusterMaxSize, clusterMinSize) ==
    LET Size(e) == e.node.size
        childrenSortedAsc == SortAscBy(graphNode.children, Size)
    IN  IF Len(childrenSortedAsc) = 0 THEN graphNode
        ELSE LET k == childrenSortedAsc[1].k
                 child == childrenSortedAsc[1].node
                 canFit == child.size + Len(graphNode.value) <= clusterMaxSize
                 cannotIsolate == Len(graphNode.value) < clusterMinSize
             IN  IF canFit /\ cannotIsolate
                 THEN [graphNode EXCEPT
                          !.value = @ \o flatten(child),
                          !.size = @ + 1,
                          !.children = RemoveKey(@, k)]
                 ELSE graphNode

RECURSIVE bubbleMicroLeftoversRecursive(_, _, _)
bubbleMicroLeftoversRecursive(graphNode, clusterMaxSize, clusterMinSize) ==
    LET Rec(e) == [e EXCEPT !.node =
                      bubbleMicroLeftoversRecursive(e.node, clusterMaxSize, clusterMinSize)]
        childrenDone == [graphNode EXCEPT !.children = Map(@, Rec)]
    IN  bubbleMicroLeftovers(
            unpackSmallest(childrenDone, clusterMaxSize, clusterMinSize),
            clusterMaxSize, clusterMinSize)

\* collect: the nodes of the tree, parents before children
RECURSIVE collect(_)
collect(graphNode) ==
    LET Sub(e) == collect(e.node)
    IN  <<graphNode>> \o Flat(Map(graphNode.children, Sub))

---------------------------------------------------------------------------
(* parsePorcelain *)

\* the length of a commit hash: `firstSpace === 40`, `[0-9a-f]{40}`
HashLen == 40

\* " "
Space == 32

\* "\t"
Tab == 9

\* "^"
Caret == 94

\* "<"
Lt == 60

\* ">"
Gt == 62

\* "author"
F_author ==
    <<97, 117, 116, 104, 111, 114>>

\* "committer-time"
F_committer_time ==
    <<99, 111, 109, 109, 105, 116, 116, 101, 114, 45, 116, 105, 109, 101>>

\* "boundary"
F_boundary ==
    <<98, 111, 117, 110, 100, 97, 114, 121>>

\* "commit"
F_commit ==
    <<99, 111, 109, 109, 105, 116>>

\* "author "
AuthorPrefix ==
    <<97, 117, 116, 104, 111, 114, 32>>

\* "committer-time "
CommitterTimePrefix ==
    <<99, 111, 109, 109, 105, 116, 116, 101, 114, 45, 116, 105, 109, 101,
      32>>

\* a commit hash: 40 times "a"
HashA ==
    <<97, 97, 97, 97, 97, 97, 97, 97, 97, 97, 97, 97, 97, 97, 97, 97, 97, 97,
      97, 97, 97, 97, 97, 97, 97, 97, 97, 97, 97, 97, 97, 97, 97, 97, 97, 97,
      97, 97, 97, 97>>

\* a commit hash with upper-case digits: "0123456789abcdefABCDEF0123456789abcdefAB"
HashMixed ==
    <<48, 49, 50, 51, 52, 53, 54, 55, 56, 57, 97, 98, 99, 100, 101, 102, 65,
      66, 67, 68, 69, 70, 48, 49, 50, 51, 52, 53, 54, 55, 56, 57, 97, 98, 99,
      100, 101, 102, 65, 66>>

\* " 1 1 1": <orig_lineno> <lineno> <num_lines>
HeaderTail ==
    <<32, 49, 32, 49, 32, 49>>

\* "author Al"
L_author_Al ==
    <<97, 117, 116, 104, 111, 114, 32, 65, 108>>

\* "author <Bo>"
L_author_Bo ==
    <<97, 117, 116, 104, 111, 114, 32, 60, 66, 111, 62>>

\* "committer-time 17"
L_time_17 ==
    <<99, 111, 109, 109, 105, 116, 116, 101, 114, 45, 116, 105, 109, 101, 32,
      49, 55>>

\* "committer-time 5"
L_time_5 ==
    <<99, 111, 109, 109, 105, 116, 116, 101, 114, 45, 116, 105, 109, 101, 32,
      53>>

\* "boundary"
L_boundary ==
    <<98, 111, 117, 110, 100, 97, 114, 121>>

\* "\tx": a content line
L_content_x ==
    <<9, 120>>

\* "\ty": a content line
L_content_y ==
    <<9, 121>>

\* A number as a DataRow value. A string value is its code units, none of
\* which is negative, so a number never equals a string.
Num(n) == <<-2, n>>

NaN == <<-3>>

\* Array.prototype.indexOf, 0-based, -1 when absent
IndexOfField(fields, name) ==
    IF \E i \in 1..Len(fields) : fields[i] = name
    THEN (CHOOSE i \in 1..Len(fields) :
              fields[i] = name /\ \A j \in 1..(i - 1) : fields[j] # name) - 1
    ELSE -1

\* line.substring(from)
Substring(s, from) == SubSeq(s, from + 1, Len(s))

IsHexDigit(c) ==
    \/ c >= 48 /\ c <= 57
    \/ c >= 97 /\ c <= 102
    \/ c >= 65 /\ c <= 70

\* /^\^?[0-9a-f]{40}$/i.test(s)
IsHash(s) ==
    LET digits == IF s # <<>> /\ s[1] = Caret THEN Tail(s) ELSE s
    IN  /\ Len(digits) = HashLen
        /\ \A i \in 1..Len(digits) : IsHexDigit(digits[i])

\* s.replace(/^\^/, '')
StripCaret(s) == IF s # <<>> /\ s[1] = Caret THEN Tail(s) ELSE s

\* s.replace(/^<|>$/g, '')
StripAngle(s) ==
    LET t == IF s # <<>> /\ s[1] = Lt THEN Tail(s) ELSE s
    IN  IF t # <<>> /\ t[Len(t)] = Gt THEN SubSeq(t, 1, Len(t) - 1) ELSE t

IsWhiteSpace(c) == c \in {9, 10, 11, 12, 13, 32}

RECURSIVE TrimStart(_)
TrimStart(s) ==
    IF s # <<>> /\ IsWhiteSpace(s[1]) THEN TrimStart(Tail(s)) ELSE s

\* the longest prefix of s made of decimal digits
DigitPrefix(s) ==
    LET k == CHOOSE n \in 0..Len(s) :
                 /\ \A i \in 1..n : IsDigit(s[i])
                 /\ (n = Len(s) \/ ~IsDigit(s[n + 1]))
    IN  SubSeq(s, 1, k)

\* parseInt(s, 10): leading white space, an optional sign, then digits; what
\* follows the digits is ignored; NaN without a digit
ParseInt(s) ==
    LET t == TrimStart(s)
        signed == t # <<>> /\ (t[1] = 43 \/ t[1] = 45)
        digits == DigitPrefix(IF signed THEN Tail(t) ELSE t)
    IN  IF digits = <<>> THEN NaN
        ELSE IF signed /\ t[1] = 45 THEN Num(0 - DecimalValue(digits))
        ELSE Num(DecimalValue(digits))

\* row[pos] = v for a position found by indexOf (no assignment for -1)
SetAt(row, pos, v) == IF pos >= 0 THEN [row EXCEPT ![pos + 1] = v] ELSE row

\* emptyRow: the field names, with 0 for committer-time and for boundary
EmptyRow(fields) ==
    SetAt(SetAt(fields, IndexOfField(fields, F_committer_time), Num(0)),
          IndexOfField(fields, F_boundary), Num(0))

\* the loop body for a line that is no content line; st holds nextRow and
\* result
MetadataLine(st, line, fields) ==
    LET userPos == IndexOfField(fields, F_author)
        commiterTimePos == IndexOfField(fields, F_committer_time)
        boundaryPos == IndexOfField(fields, F_boundary)
        commitPos == IndexOfField(fields, F_commit)
        firstSpace == IndexOf(line, Space)
        possibleHash == SubSeq(line, 1, firstSpace)
    IN  IF commitPos >= 0 /\ firstSpace = HashLen /\ IsHash(possibleHash)
        THEN [st EXCEPT !.nextRow =
                 SetAt(EmptyRow(fields), commitPos, StripCaret(possibleHash))]
        ELSE IF userPos >= 0 /\ StartsWith(line, AuthorPrefix)
        THEN [st EXCEPT !.nextRow =
                 SetAt(@, userPos, StripAngle(Substring(line, Len(AuthorPrefix))))]
        ELSE IF commiterTimePos >= 0 /\ StartsWith(line, CommitterTimePrefix)
        THEN [st EXCEPT !.nextRow =
                 SetAt(@, commiterTimePos,
                       ParseInt(Substring(line, Len(CommitterTimePrefix))))]
        ELSE IF boundaryPos >= 0 /\ StartsWith(line, F_boundary)
        THEN [st EXCEPT !.nextRow = SetAt(@, boundaryPos, Num(1))]
        ELSE st

\* the loop body that starts an empty row after every pushed one (as the
\* parsePorcelain of src/git.ts does)
LoopBodyResetsAfterPush(st, line, fields) ==
    IF StartsWith(line, <<Tab>>)
    THEN [st EXCEPT !.result = Append(@, st.nextRow), !.nextRow = EmptyRow(fields)]
    ELSE MetadataLine(st, line, fields)

\* the body of `for (const line of blameOutput)`
LoopBody(st, line, fields) ==
    IF StartsWith(line, <<Tab>>)
    THEN [st EXCEPT !.result = Append(@, st.nextRow)]
    ELSE MetadataLine(st, line, fields)

parsePorcelain(blameOutput, fields) ==
    LET F[i \in 0..Len(blameOutput)] ==
            IF i = 0 THEN [nextRow |-> EmptyRow(fields), result |-> <<>>]
            ELSE LoopBody(F[i - 1], blameOutput[i], fields)
    IN  F[Len(blameOutput)].result

\* hunk headers: a hash, a hash with upper-case digits, "^" and a hash
H_a == HashA \o HeaderTail

H_mixed == HashMixed \o HeaderTail

H_caret == <<Caret>> \o HashA \o HeaderTail

Headers == {H_a, H_mixed, H_caret}

\* no headers: "^" and 39 hex digits before the first space; 39 hex digits
\* before the first space
L_caret39 == <<Caret>> \o SubSeq(HashA, 1, HashLen - 1) \o HeaderTail

L_short == SubSeq(HashMixed, 1, HashLen - 1) \o HeaderTail

\* what follows the header in a hunk: metadata lines, then content lines
Bodies ==
    { <<L_author_Al, L_time_17, L_content_x>>,
      <<L_author_Bo, L_time_5, L_content_x, L_content_y>>,
      <<L_author_Al, L_time_17, L_boundary, L_content_x>>,
      <<L_author_Bo, L_content_y>>,
      <<L_author_Al, L_caret39, L_time_5, L_content_x>>,
      <<L_short, L_author_Bo, L_time_17, L_content_y>> }

Hunks == {<<h>> \o b : h \in Headers, b \in Bodies}

\* the requested field lists
FieldLists ==
    { <<F_author, F_committer_time>>,
      <<F_author, F_committer_time, F_commit>>,
      <<F_author, F_committer_time, F_boundary>>,
      <<F_boundary, F_commit, F_author, F_committer_time>> }

---------------------------------------------------------------------------
(* forEachRepoFile *)

\* Math.max(5, ...): the least minClusterSize
MinClusterFloor == 5

\* files.length / 1000
FilesPerMinCluster == 1000

\* Math.max(20, ...): the least maxClusterSize
MaxClusterFloor == 20

\* "$$$unknown$$$"
Unknown == <<36, 36, 36, 117, 110, 107, 110, 111, 119, 110, 36, 36, 36>>

Max(a, b) == IF a >= b THEN a ELSE b

\* Math.floor(Math.max(5, n / 1000))
MinClusterSizeFor(n) == Max(MinClusterFloor, n \div FilesPerMinCluster)

\* Math.round(Math.max(20, minClusterSize * 2))
MaxClusterSizeFor(n) == Max(MaxClusterFloor, MinClusterSizeFor(n) * 2)

\* the while (changes) loop of clusterFiles, run to its end
RECURSIVE RefineLoop(_, _, _, _)
RefineLoop(v, groups, clusterMaxSize, clusterMinSize) ==
    IF PassChanges(v, groups, clusterMaxSize, clusterMinSize)
    THEN RefineLoop(v, FlatMapPass(v, groups, clusterMaxSize, clusterMinSize),
                    clusterMaxSize, clusterMinSize)
    ELSE groups

\* clusterFiles (the variant built on clusterFiles1), as one call
clusterFiles(files, clusterMaxSize, clusterMinSize) ==
    FileTreeClusters(
        RefineLoop("clusterFiles1",
                   <<Cluster(<<>>, FileInfos(files), FALSE, FALSE)>>,
                   clusterMaxSize, clusterMinSize))

\* clusterPaths.find(it => file.startsWith(it)) ?? "$$$unknown$$$"
FindClusterPath(clusterPaths, file) ==
    LET hits == {i \in 1..Len(clusterPaths) : StartsWith(file, clusterPaths[i])}
    IN  IF hits = {} THEN Unknown
        ELSE clusterPaths[CHOOSE i \in hits : \A j \in hits : i <= j]

\* the listing of a repository: n files "a.A", "a.B", ... at the root
RootFiles(n) ==
    LET F[j \in 0..n] == IF j = 0 THEN <<>> ELSE Append(F[j - 1], <<97, 46, 64 + j>>)
    IN  F[n]

\* n files "<dir>/A", "<dir>/B", ... in the directory dir
DirFiles(dir, n) ==
    LET F[j \in 0..n] ==
            IF j = 0 THEN <<>> ELSE Append(F[j - 1], dir \o <<Slash, 64 + j>>)
    IN  F[n]

\* "ab": a directory whose name starts with the name of the directory "a"
D_ab == <<97, 98>>

\* git ls-files output (sorted): files at the root, in "a/" and in "ab/"
RepoListings ==
    { RootFiles(r) \o DirFiles(P_a, na) \o DirFiles(D_ab, nab) :
          r \in 0..MaxRootFiles, na \in 0..MaxDirFiles, nab \in 0..MaxDirFiles }

\* s rotated left by k
Rotate(s, k) ==
    IF s = <<>> THEN s
    ELSE LET n == k % Len(s) IN SubSeq(s, n + 1, Len(s)) \o SubSeq(s, 1, n)

---------------------------------------------------------------------------
(* bucket, daysAgo *)

\* 1000 * 60 * 60 * 24
MsPerDay == 86400000

\* epoch * 1000
MsPerSecond == 1000

\* a < b on numbers: false when either is NaN
NumLess(a, b) == a # NaN /\ b # NaN /\ a[2] < b[2]

\* the loop of bucket from i on; buckets[i] of the source is buckets[i + 1] here
RECURSIVE BucketLoop(_, _, _)
BucketLoop(n, buckets, i) ==
    IF ~(i < Len(buckets)) THEN Num(-1)
    ELSE IF NumLess(buckets[i], n) /\ NumLess(n, buckets[i + 1])
         THEN buckets[i]
         ELSE BucketLoop(n, buckets, i + 1)

\* n >= buckets[i-1] in place of n > buckets[i-1]
bucketClosedBelow(n, buckets) ==
    LET hits == {i \in 1..(Len(buckets) - 1) :
                     /\ n # NaN
                     /\ ~NumLess(n, buckets[i])
                     /\ NumLess(n, buckets[i + 1])}
    IN  IF hits = {} THEN Num(-1)
        ELSE buckets[CHOOSE i \in hits : \A j \in hits : i <= j]

bucket(n, buckets) == BucketLoop(n, buckets, 1)

\* Math.floor((now - epoch * 1000) / (1000 * 60 * 60 * 24))
daysAgo(epoch, nowMs) ==
    IF epoch = NaN THEN NaN
    ELSE Num((nowMs - epoch[2] * MsPerSecond) \div MsPerDay)

---------------------------------------------------------------------------
(* State *)

VARIABLES
    files,            \* clusterFiles / buildGraph: the input list of paths
    clusterMaxSize,
    clusterMinSize,
    variant,          \* which top-down clusterFiles runs
    clusterGroups,    \* clusterFiles: let clusterGroups
    changes,          \* clusterFiles: let changes
    pc,               \* clusterFiles: "loop" | "done"
    result,           \* clusterFiles: the returned FileTreeCluster[]
    g,                \* the tree of buildGraph, mutated by the passes
    passes,           \* calls of bubbleMicroLeftoversRecursive(g, ...) so far
    hunks,            \* parsePorcelain: the blame output, hunk by hunk
    fields,           \* parsePorcelain: the requested fields
    rows,             \* parsePorcelain: the returned rows
    parsePc,          \* parsePorcelain: "call" | "done"
    filesClustered,   \* forEachRepoFile: const filesClustered
    filesShuffled,    \* forEachRepoFile: let filesShuffled
    loopI,            \* forEachRepoFile: the loop variable i
    sigintCaught,     \* index.ts: let sigintCaught
    yielded,          \* forEachRepoFile: the rows the last iteration yielded
    repoPc,           \* forEachRepoFile: "loop" | "done" | "exit"
    program,          \* which entry point runs: see Programs
    targetExists,     \* main: fs.existsSync of the target path
    repoFileCounts,   \* repoPathsToProcess: the number of files of each repository
    scanPc,           \* the position of the run: see InitScan
    repoIdx,          \* the repositories the pipeline has entered so far
    fileIdx,          \* the loop variable i of the repository being processed
    rowsLeft,         \* rows of the current file not yet handed downstream
    signalsSent,      \* SIGINTs sent to the process so far
    pendingSigint,    \* SIGINTs whose listener has not run yet
    childSignalled,   \* the running git child received the SIGINT too
    exitCode,         \* the exit status of the process
    reported,         \* "... may be incomplete" has been printed
    rowLost,          \* a row pulled from the pipeline was dropped
    fileFailed,       \* the extraction of some file has failed
    stats,            \* aggregateRawStats: const stats, its own properties
    inheritedProps,   \* properties set on an object that stats inherits
    consumedItems,    \* aggregateRawStats: the items consumed so far
    chainItems,       \* the source of a generator chain: per item, the
                      \* number of items the mapper's generator yields
    outerIdx,         \* flatMap: items taken from the outer source
    innerIdx,         \* flatMap: items taken from the current inner generator
    pendingConsumers, \* forEach: promises of the consumer not yet settled
    chainPc,          \* forEach: "pull" | "deliver" | "await" | "done"
    callee,           \* the function called: "mostFrequent" | "bucket"
    callArgs,         \* its arguments
    callResult,       \* its return value
    callPc,           \* "call" | "done"
    now,              \* Date.now(), in milliseconds
    revListExit,      \* findRevision: exit code of git rev-list
    revListChunks,    \* findRevision: the stdout chunks of git rev-list
    revisionBoundary, \* forEachRepoFile: let revisionBoundary
    blameArgs,        \* executeGitBlamePorcelain: const args
    blameText,        \* the text git blame writes to its stdout
    unread,           \* the part of that text not yet delivered
    stdout,           \* execAsync: let stdout, the 'data' chunks so far
    items,            \* doProcessFile1: the rows of git_blame_porcelain
    fileRows,         \* doProcessFile1: const result
    boundaryAware,    \* doProcessFile1 takes a revisionBoundary (index.ts:341)
    blamePc           \* the position of the file's processing: see InitBlame

topDownVars == <<variant, clusterGroups, changes, pc, result>>

graphVars == <<g, passes>>

inputVars == <<files, clusterMaxSize, clusterMinSize>>

parseVars == <<hunks, fields, rows, parsePc>>

repoVars == <<filesClustered, filesShuffled, loopI, sigintCaught, yielded, repoPc>>

scanVars == <<program, targetExists, repoFileCounts, scanPc, repoIdx, fileIdx,
              rowsLeft, signalsSent, pendingSigint, childSignalled, exitCode,
              reported, rowLost, fileFailed>>

aggVars == <<stats, inheritedProps, consumedItems>>

chainVars == <<chainItems, outerIdx, innerIdx, pendingConsumers, chainPc>>

callVars == <<callee, callArgs, callResult, callPc>>

blameVars == <<now, revListExit, revListChunks, revisionBoundary, blameArgs,
               blameText, unread, stdout, items, fileRows, boundaryAware, blamePc>>

pipelineVars == <<scanVars, aggVars, chainVars, callVars, blameVars>>

vars == <<inputVars, topDownVars, graphVars, parseVars, repoVars, pipelineVars>>

\* the values of the variables of the parts a specification does not run
IdleTopDown ==
    /\ variant = "clusterFiles1"
    /\ clusterGroups = <<>>
    /\ changes = FALSE
    /\ pc = "idle"
    /\ result = <<>>

IdleGraph ==
    /\ g = GraphNode(<<>>, <<>>, <<>>, 0)
    /\ passes = 0

IdleClustering ==
    /\ files = <<>>
    /\ clusterMaxSize = 1
    /\ clusterMinSize = 1
    /\ IdleTopDown
    /\ IdleGraph

IdleParse ==
    /\ hunks = <<>>
    /\ fields = <<>>
    /\ rows = <<>>
    /\ parsePc = "idle"

IdleRepo ==
    /\ filesClustered = <<>>
    /\ filesShuffled = <<>>
    /\ loopI = 0
    /\ sigintCaught = FALSE
    /\ yielded = <<>>
    /\ repoPc = "idle"

IdleScan ==
    /\ program = "scan"
    /\ targetExists = TRUE
    /\ repoFileCounts = <<>>
    /\ scanPc = "idle"
    /\ repoIdx = 0
    /\ fileIdx = 0
    /\ rowsLeft = 0
    /\ signalsSent = 0
    /\ pendingSigint = 0
    /\ childSignalled = FALSE
    /\ exitCode = 0
    /\ reported = FALSE
    /\ rowLost = FALSE
    /\ fileFailed = FALSE

IdleAggregate ==
    /\ stats = <<>>
    /\ inheritedProps = <<>>
    /\ consumedItems = <<>>

IdleChain ==
    /\ chainItems = <<>>
    /\ outerIdx = 0
    /\ innerIdx = 0
    /\ pendingConsumers = 0
    /\ chainPc = "idle"

IdleCall ==
    /\ callee = "none"
    /\ callArgs = <<>>
    /\ callResult = Undefined
    /\ callPc = "idle"

IdleBlame ==
    /\ now = 0
    /\ revListExit = 0
    /\ revListChunks = <<>>
    /\ revisionBoundary = Undefined
    /\ blameArgs = <<>>
    /\ blameText = <<>>
    /\ unread = <<>>
    /\ stdout = <<>>
    /\ items = <<>>
    /\ fileRows = <<>>
    /\ boundaryAware = FALSE
    /\ blamePc = "idle"

IdlePipeline == IdleScan /\ IdleAggregate /\ IdleChain /\ IdleCall /\ IdleBlame

---------------------------------------------------------------------------
(* clusterFiles, top-down *)

InitTopDown ==
    /\ files \in SeqsUpTo(Paths, MaxFiles)
    /\ \E mm \in SizePairs : clusterMaxSize = mm[1] /\ clusterMinSize = mm[2]
    /\ variant \in Variants
    /\ clusterGroups = <<Cluster(<<>>, FileInfos(files), FALSE, FALSE)>>
    /\ changes = TRUE
    /\ pc = "loop"
    /\ result = <<>>
    /\ IdleGraph
    /\ IdleParse
    /\ IdleRepo
    /\ IdlePipeline

\* one iteration of while (changes)
LoopPass ==
    /\ pc = "loop"
    /\ changes
    /\ clusterGroups' = FlatMapPass(variant, clusterGroups, clusterMaxSize, clusterMinSize)
    /\ changes' = PassChanges(variant, clusterGroups, clusterMaxSize, clusterMinSize)
    /\ UNCHANGED <<pipelineVars, inputVars, graphVars, parseVars, repoVars, variant, pc, result>>

\* the loop exit and the return statement
Return ==
    /\ pc = "loop"
    /\ ~changes
    /\ result' = FileTreeClusters(clusterGroups)
    /\ pc' = "done"
    /\ UNCHANGED <<pipelineVars, inputVars, graphVars, parseVars, repoVars, variant, clusterGroups, changes>>

NextTopDown == LoopPass \/ Return

SpecTopDown == InitTopDown /\ [][NextTopDown]_vars

---------------------------------------------------------------------------
(* graph: buildGraph, then passes of bubbleMicroLeftoversRecursive *)

InitGraph ==
    /\ files \in SeqsUpTo(GraphPaths, MaxFiles)
    /\ \E mm \in SizePairs : clusterMaxSize = mm[1] /\ clusterMinSize = mm[2]
    /\ g = buildGraph(FileInfos(files))
    /\ passes = 0
    /\ IdleTopDown
    /\ IdleParse
    /\ IdleRepo
    /\ IdlePipeline

\* graph.bubbleMicroLeftoversRecursive(g, clusterMaxSize, clusterMinSize)
Pass ==
    /\ passes < MaxPasses
    /\ g' = bubbleMicroLeftoversRecursive(g, clusterMaxSize, clusterMinSize)
    /\ passes' = passes + 1
    /\ UNCHANGED <<pipelineVars, inputVars, topDownVars, parseVars, repoVars>>

NextGraph == Pass

SpecGraph == InitGraph /\ [][NextGraph]_vars

---------------------------------------------------------------------------
(* parsePorcelain on a blame output *)

\* the lines handed to parsePorcelain
blameOutput == Flat(hunks)

InitParse ==
    /\ hunks \in SeqsUpTo(Hunks, MaxHunks)
    /\ fields \in FieldLists
    /\ rows = <<>>
    /\ parsePc = "call"
    /\ IdleClustering
    /\ IdleRepo
    /\ IdlePipeline

\* rows = parsePorcelain(blameOutput, fields)
Parse ==
    /\ parsePc = "call"
    /\ rows' = parsePorcelain(blameOutput, fields)
    /\ parsePc' = "done"
    /\ UNCHANGED <<pipelineVars, inputVars, topDownVars, graphVars, repoVars, hunks, fields>>

NextParse == Parse

SpecParse == InitParse /\ [][NextParse]_vars

---------------------------------------------------------------------------
(* forEachRepoFile: clustering, shuffle and the loop over the files *)

clusterPaths == LET Path(it) == it.path IN Map(filesClustered, Path)

\* The state when the loop is entered. [...files].sort(() => Math.random() -
\* 0.5) leaves the files in some order; the model draws it from the rotations
\* of the listing.
InitRepo ==
    /\ files \in RepoListings
    /\ clusterMinSize = MinClusterSizeFor(Len(files))
    /\ clusterMaxSize = MaxClusterSizeFor(Len(files))
    /\ filesClustered = clusterFiles(files, clusterMaxSize, clusterMinSize)
    /\ \E k \in 0..MaxRotation : filesShuffled = Rotate(files, k)
    /\ loopI = 0
    /\ sigintCaught = FALSE
    /\ yielded = <<>>
    /\ repoPc = "loop"
    /\ IdleTopDown
    /\ IdleGraph
    /\ IdleParse
    /\ IdlePipeline

\* an iteration in which doProcessFile returns n >= 1 rows: each is yielded
\* with clusterPath appended
YieldRows ==
    /\ repoPc = "loop"
    /\ loopI < Len(files)
    /\ ~sigintCaught
    /\ \E n \in 1..MaxRowsPerFile :
           LET file == filesShuffled[loopI + 1]
               clusterPath == FindClusterPath(clusterPaths, file)
           IN  yielded' = [r \in 1..n |-> [file |-> file, clusterPath |-> clusterPath]]
    /\ loopI' = loopI + 1
    /\ UNCHANGED <<pipelineVars, inputVars, topDownVars, graphVars, parseVars,
                   filesClustered, filesShuffled, sigintCaught, repoPc>>

\* an iteration in which doProcessFile returns no row, or throws an error
\* that is no SIGINT
SkipFile ==
    /\ repoPc = "loop"
    /\ loopI < Len(files)
    /\ ~sigintCaught
    /\ yielded' = <<>>
    /\ loopI' = loopI + 1
    /\ UNCHANGED <<pipelineVars, inputVars, topDownVars, graphVars, parseVars,
                   filesClustered, filesShuffled, sigintCaught, repoPc>>

\* an iteration in which doProcessFile throws with e.signal === 'SIGINT'
CatchSigint ==
    /\ repoPc = "loop"
    /\ loopI < Len(files)
    /\ ~sigintCaught
    /\ yielded' = <<>>
    /\ sigintCaught' = TRUE
    /\ loopI' = loopI + 1
    /\ UNCHANGED <<pipelineVars, inputVars, topDownVars, graphVars, parseVars,
                   filesClustered, filesShuffled, repoPc>>

\* process.on('SIGINT', ...): the first signal sets the flag, the second
\* exits the process
OnSigint ==
    /\ repoPc = "loop"
    /\ IF sigintCaught
       THEN repoPc' = "exit" /\ UNCHANGED sigintCaught
       ELSE sigintCaught' = TRUE /\ UNCHANGED repoPc
    /\ UNCHANGED <<pipelineVars, inputVars, topDownVars, graphVars, parseVars,
                   filesClustered, filesShuffled, loopI, yielded>>

\* the loop ends: all files done, or `if (sigintCaught) break`
EndLoop ==
    /\ repoPc = "loop"
    /\ (loopI >= Len(files) \/ sigintCaught)
    /\ yielded' = <<>>
    /\ repoPc' = "done"
    /\ UNCHANGED <<pipelineVars, inputVars, topDownVars, graphVars, parseVars,
                   filesClustered, filesShuffled, loopI, sigintCaught>>

NextRepo == YieldRows \/ SkipFile \/ CatchSigint \/ OnSigint \/ EndLoop

SpecRepo == InitRepo /\ [][NextRepo]_vars

---------------------------------------------------------------------------
(* The run of the tool: discovery, the row pipeline, the SIGINT listener *)

\* process.exit(130) of the SIGINT listener
ForcedExitCode == 130

\* process.exit(1) of the streaming script for a missing target path
MissingPathExitCode == 1

\* The entry points: main of the streaming script writing CSV or HTML
\* (extraction with execSync), main of the older index.ts and runScan of the
\* current one (extraction awaited, rows aggregated before they are printed).
Programs == {"stream-csv", "stream-html", "main", "scan"}

\* extraction blocks the event loop (execSync) in the streaming script
SyncExtraction == program \in {"stream-csv", "stream-html"}

\* the repositories found: the number of files git ls-files lists in each
RepoFileCounts == SeqsUpTo(0..MaxRepoFiles, MaxRepos)

\* the files of the repository the pipeline is in
FilesOfRepo == IF repoIdx = 0 THEN 0 ELSE repoFileCounts[repoIdx]

InitScan ==
    /\ program \in Programs
    /\ repoFileCounts \in RepoFileCounts
    /\ targetExists \in BOOLEAN
    /\ ~targetExists => repoFileCounts = <<>>
    /\ scanPc = "discover"
    /\ repoIdx = 0
    /\ fileIdx = 0
    /\ rowsLeft = 0
    /\ signalsSent = 0
    /\ pendingSigint = 0
    /\ childSignalled = FALSE
    /\ exitCode = 0
    /\ reported = FALSE
    /\ rowLost = FALSE
    /\ fileFailed = FALSE
    /\ IdleClustering
    /\ IdleParse
    /\ IdleRepo
    /\ IdleAggregate
    /\ IdleChain
    /\ IdleCall
    /\ IdleBlame

\* Repo discovery. The streaming script ends the process itself: exit(1) for
\* a missing path, exit(0) when nothing was found. getRepoPathsToProcess and
\* findRepositories throw instead; main().catch(console.error) prints the
\* error and the process ends with the status it had.
Discover ==
    /\ scanPc = "discover"
    /\ IF targetExists /\ repoFileCounts # <<>>
       THEN scanPc' = "nextRepo" /\ UNCHANGED exitCode
       ELSE IF SyncExtraction
            THEN /\ scanPc' = "exited"
                 /\ exitCode' = IF targetExists THEN 0 ELSE MissingPathExitCode
            ELSE scanPc' = "returned" /\ UNCHANGED exitCode
    /\ UNCHANGED <<aggVars, chainVars, callVars, blameVars, inputVars, topDownVars, graphVars, parseVars, repoVars,
                   program, targetExists, repoFileCounts, repoIdx, fileIdx,
                   rowsLeft, signalsSent, pendingSigint, childSignalled,
                   reported, rowLost, fileFailed>>

\* The pipeline asks for the next repository. discoverAndExtract leaves its
\* loop over the repositories once sigintCaught is set; flatMap enters
\* forEachRepoFile for every repository.
NextRepoPath ==
    /\ scanPc = "nextRepo"
    /\ IF repoIdx >= Len(repoFileCounts) \/ (SyncExtraction /\ sigintCaught)
       THEN scanPc' = "drained" /\ UNCHANGED <<repoIdx, fileIdx>>
       ELSE scanPc' = "loop" /\ repoIdx' = repoIdx + 1 /\ fileIdx' = 0
    /\ UNCHANGED <<aggVars, chainVars, callVars, blameVars, inputVars, topDownVars, graphVars, parseVars, repoVars,
                   program, targetExists, repoFileCounts, rowsLeft,
                   signalsSent, pendingSigint, childSignalled, exitCode,
                   reported, rowLost, fileFailed>>

\* for (let i = 0; i < files.length; i++) { if (sigintCaught) break; ... :
\* the loop ends, or the blame extraction of file i starts
StartFile ==
    /\ scanPc = "loop"
    /\ IF fileIdx >= FilesOfRepo \/ sigintCaught
       THEN scanPc' = "nextRepo" /\ UNCHANGED fileIdx
       ELSE scanPc' = "extracting" /\ fileIdx' = fileIdx + 1
    /\ childSignalled' = FALSE
    /\ UNCHANGED <<aggVars, chainVars, callVars, blameVars, inputVars, topDownVars, graphVars, parseVars, repoVars,
                   program, targetExists, repoFileCounts, repoIdx, rowsLeft,
                   signalsSent, pendingSigint, exitCode, reported, rowLost,
                   fileFailed>>

\* the extraction of the file returns n >= 1 rows
ExtractRows ==
    /\ scanPc = "extracting"
    /\ ~childSignalled
    /\ \E n \in 1..MaxRowsPerFile : rowsLeft' = n
    /\ scanPc' = "yield"
    /\ UNCHANGED <<aggVars, chainVars, callVars, blameVars, inputVars, topDownVars, graphVars, parseVars, repoVars,
                   program, targetExists, repoFileCounts, repoIdx, fileIdx,
                   signalsSent, pendingSigint, childSignalled, exitCode,
                   reported, rowLost, fileFailed>>

\* ExtractFails without the try / catch of the loop: the error leaves the
\* generator, the consumer's for await throws and main rejects
ExtractFailsUncaught ==
    /\ scanPc = "extracting"
    /\ SyncExtraction => ~childSignalled
    /\ fileFailed' = TRUE
    /\ scanPc' = "returned"
    /\ UNCHANGED <<aggVars, chainVars, callVars, blameVars, inputVars, topDownVars, graphVars, parseVars, repoVars,
                   program, targetExists, repoFileCounts, repoIdx, fileIdx,
                   rowsLeft, signalsSent, pendingSigint, childSignalled,
                   exitCode, reported, rowLost>>

\* The extraction of the file fails (blame fails, the file is unreadable or
\* binary): catch (e) { if (e.signal === 'SIGINT') sigintCaught = true }.
\* The error of execSync carries the signal that killed the child; the error
\* execAsync rejects with carries none.
ExtractFails ==
    /\ scanPc = "extracting"
    /\ SyncExtraction => ~childSignalled
    /\ fileFailed' = TRUE
    /\ scanPc' = "loop"
    /\ UNCHANGED <<aggVars, chainVars, callVars, blameVars, inputVars, topDownVars, graphVars, parseVars, repoVars,
                   program, targetExists, repoFileCounts, repoIdx, fileIdx,
                   rowsLeft, signalsSent, pendingSigint, childSignalled,
                   exitCode, reported, rowLost>>

\* the child was killed by SIGINT and the error says so: the catch sets
\* sigintCaught
CatchChildSigint ==
    /\ scanPc = "extracting"
    /\ SyncExtraction
    /\ childSignalled
    /\ sigintCaught' = TRUE
    /\ fileFailed' = TRUE
    /\ scanPc' = "loop"
    /\ UNCHANGED <<aggVars, chainVars, callVars, blameVars, inputVars, topDownVars, graphVars, parseVars,
                   filesClustered, filesShuffled, loopI, yielded, repoPc,
                   program, targetExists, repoFileCounts, repoIdx, fileIdx,
                   rowsLeft, signalsSent, pendingSigint, childSignalled,
                   exitCode, reported, rowLost>>

\* ConsumeRow with every consumer leaving its loop on sigintCaught
ConsumeRowAlwaysBreaks ==
    /\ scanPc = "yield"
    /\ IF sigintCaught
       THEN /\ rowLost' = TRUE
            /\ scanPc' = "drained"
            /\ UNCHANGED rowsLeft
       ELSE /\ rowsLeft' = rowsLeft - 1
            /\ scanPc' = IF rowsLeft = 1 THEN "loop" ELSE "yield"
            /\ UNCHANGED rowLost
    /\ UNCHANGED <<aggVars, chainVars, callVars, blameVars, inputVars, topDownVars, graphVars, parseVars, repoVars,
                   program, targetExists, repoFileCounts, repoIdx, fileIdx,
                   signalsSent, pendingSigint, childSignalled, exitCode,
                   reported, fileFailed>>

\* The consumer receives the next row of the file. streamToCsv leaves its
\* loop, without printing the row, when sigintCaught is set; the aggregating
\* consumers count every row.
ConsumeRow ==
    /\ scanPc = "yield"
    /\ IF program = "stream-csv" /\ sigintCaught
       THEN /\ rowLost' = TRUE
            /\ scanPc' = "drained"
            /\ UNCHANGED rowsLeft
       ELSE /\ rowsLeft' = rowsLeft - 1
            /\ scanPc' = IF rowsLeft = 1 THEN "loop" ELSE "yield"
            /\ UNCHANGED rowLost
    /\ UNCHANGED <<aggVars, chainVars, callVars, blameVars, inputVars, topDownVars, graphVars, parseVars, repoVars,
                   program, targetExists, repoFileCounts, repoIdx, fileIdx,
                   signalsSent, pendingSigint, childSignalled, exitCode,
                   reported, fileFailed>>

\* The pipeline is exhausted and the output is written. The streaming script
\* and the older main print "... may be incomplete" if sigintCaught is set;
\* runScan prints the aggregated rows only.
FinishRun ==
    /\ scanPc = "drained"
    /\ reported' = (program # "scan" /\ sigintCaught)
    /\ scanPc' = "returned"
    /\ UNCHANGED <<aggVars, chainVars, callVars, blameVars, inputVars, topDownVars, graphVars, parseVars, repoVars,
                   program, targetExists, repoFileCounts, repoIdx, fileIdx,
                   rowsLeft, signalsSent, pendingSigint, childSignalled,
                   exitCode, rowLost, fileFailed>>

\* A SIGINT is sent to the process. Sent from the terminal it reaches the
\* git child of a running extraction as well.
Interrupt ==
    /\ scanPc \notin {"returned", "exited"}
    /\ signalsSent < MaxSignals
    /\ signalsSent' = signalsSent + 1
    /\ pendingSigint' = pendingSigint + 1
    /\ \E hit \in BOOLEAN :
           childSignalled' = (childSignalled \/ (hit /\ scanPc = "extracting"))
    /\ UNCHANGED <<aggVars, chainVars, callVars, blameVars, inputVars, topDownVars, graphVars, parseVars, repoVars,
                   program, targetExists, repoFileCounts, scanPc, repoIdx,
                   fileIdx, rowsLeft, exitCode, reported, rowLost, fileFailed>>

\* the event loop runs: while an awaited extraction is pending, and after
\* main has returned
EventLoopTurns ==
    \/ scanPc = "extracting" /\ ~SyncExtraction
    \/ scanPc = "returned"

\* process.on('SIGINT', ...) runs for one pending signal
SigintListener ==
    /\ pendingSigint > 0
    /\ EventLoopTurns
    /\ pendingSigint' = pendingSigint - 1
    /\ IF sigintCaught
       THEN /\ scanPc' = "exited"
            /\ exitCode' = ForcedExitCode
            /\ UNCHANGED sigintCaught
       ELSE /\ sigintCaught' = TRUE
            /\ UNCHANGED <<scanPc, exitCode>>
    /\ UNCHANGED <<aggVars, chainVars, callVars, blameVars, inputVars, topDownVars, graphVars, parseVars,
                   filesClustered, filesShuffled, loopI, yielded, repoPc,
                   program, targetExists, repoFileCounts, repoIdx, fileIdx,
                   rowsLeft, signalsSent, childSignalled, reported, rowLost,
                   fileFailed>>

NextScan ==
    \/ Discover
    \/ NextRepoPath
    \/ StartFile
    \/ ExtractRows
    \/ ExtractFails
    \/ CatchChildSigint
    \/ ConsumeRow
    \/ FinishRun
    \/ Interrupt
    \/ SigintListener

SpecScan == InitScan /\ [][NextScan]_vars

\* the steps of the program itself: the runtime resumes the generators and
\* the consumer, and a started git child ends
RunStep ==
    \/ Discover
    \/ NextRepoPath
    \/ StartFile
    \/ ExtractRows
    \/ ExtractFails
    \/ CatchChildSigint
    \/ ConsumeRow
    \/ FinishRun

\* the run with its own steps never postponed for ever
SpecScanFair == SpecScan /\ WF_vars(RunStep)

---------------------------------------------------------------------------
(* aggregateRawStats: counting the rows of the stream per key pair *)

\* a name every object inherits from its prototype: {}.constructor is a
\* function although {} has no property of its own
InheritedNames == {"constructor"}

\* the keys of the rows: two ordinary names and an inherited one
StatKeys == {"al", "bo"} \cup InheritedNames

\* the function a lookup of an inherited name yields
InheritedFunction == <<-4>>

\* obj[k], for an object with the own properties props
GetProp(props, k) ==
    IF k \in DOMAIN props THEN props[k]
    ELSE IF k \in InheritedNames THEN InheritedFunction
    ELSE Undefined

\* obj[k] = v
PutProp(props, k, v) ==
    [x \in DOMAIN props \cup {k} |-> IF x = k THEN v ELSE props[x]]

\* !v is false
Truthy(v) == v \notin {Undefined, Num(0), NaN}

\* the value v++ stores: ToNumber(v) + 1
Increment(v) ==
    IF Len(v) = 2 /\ v[1] = Num(0)[1] THEN Num(v[2] + 1) ELSE NaN

\* if (!obj[s]) obj[s] = 0;  obj[s]++
CountInto(props, s) ==
    LET initialised == IF Truthy(GetProp(props, s)) THEN props
                       ELSE PutProp(props, s, Num(0))
    IN  PutProp(initialised, s, Increment(GetProp(initialised, s)))

InitAggregate ==
    /\ stats = <<>>
    /\ inheritedProps = <<>>
    /\ consumedItems = <<>>
    /\ IdleClustering
    /\ IdleParse
    /\ IdleRepo
    /\ IdleScan
    /\ IdleChain
    /\ IdleCall
    /\ IdleBlame

\* One iteration of for await (const item of statStream). stats[primaryKey]
\* is an own property of stats, or the function stats inherits under that
\* name (truthy, so no object is stored), or undefined.
AggregateItem ==
    /\ Len(consumedItems) < MaxStreamRows
    /\ \E primaryKey \in StatKeys, secondaryKey \in StatKeys :
           /\ consumedItems' = Append(consumedItems, <<primaryKey, secondaryKey>>)
           /\ IF primaryKey \in DOMAIN stats
              THEN /\ stats' = PutProp(stats, primaryKey,
                                       CountInto(stats[primaryKey], secondaryKey))
                   /\ UNCHANGED inheritedProps
              ELSE IF primaryKey \in InheritedNames
              THEN /\ inheritedProps' =
                          PutProp(inheritedProps, primaryKey,
                                  CountInto(IF primaryKey \in DOMAIN inheritedProps
                                            THEN inheritedProps[primaryKey]
                                            ELSE <<>>,
                                            secondaryKey))
                   /\ UNCHANGED stats
              ELSE /\ stats' = PutProp(stats, primaryKey, CountInto(<<>>, secondaryKey))
                   /\ UNCHANGED inheritedProps
    /\ UNCHANGED <<inputVars, topDownVars, graphVars, parseVars, repoVars,
                   scanVars, chainVars, callVars, blameVars>>

NextAggregate == AggregateItem

SpecAggregate == InitAggregate /\ [][NextAggregate]_vars

---------------------------------------------------------------------------
(* The generator chain: of -> flatMap -> map -> forEach *)

\* the sources: per outer item, the number of items its inner generator yields
ChainSources == SeqsUpTo(0..MaxInner, MaxOuter)

\* the length of the inner generator flatMap is delegating to
InnerLen == IF outerIdx = 0 THEN 0 ELSE chainItems[outerIdx]

InitChain ==
    /\ chainItems \in ChainSources
    /\ outerIdx = 0
    /\ innerIdx = 0
    /\ pendingConsumers = 0
    /\ chainPc = "pull"
    /\ IdleClustering
    /\ IdleParse
    /\ IdleRepo
    /\ IdleScan
    /\ IdleAggregate
    /\ IdleCall
    /\ IdleBlame

\* forEach asks for the next item; flatMap is inside yield* mapper(item) and
\* the inner generator yields one; map hands mapper(item) on
YieldInner ==
    /\ chainPc = "pull"
    /\ innerIdx < InnerLen
    /\ innerIdx' = innerIdx + 1
    /\ chainPc' = "deliver"
    /\ UNCHANGED <<inputVars, topDownVars, graphVars, parseVars, repoVars,
                   callVars, blameVars, scanVars, aggVars, chainItems, outerIdx, pendingConsumers>>

\* the inner generator is done: for await (const item of items) takes the
\* next item of the outer source and calls the mapper
AdvanceOuter ==
    /\ chainPc = "pull"
    /\ innerIdx = InnerLen
    /\ outerIdx < Len(chainItems)
    /\ outerIdx' = outerIdx + 1
    /\ innerIdx' = 0
    /\ UNCHANGED <<inputVars, topDownVars, graphVars, parseVars, repoVars,
                   callVars, blameVars, scanVars, aggVars, chainItems, pendingConsumers, chainPc>>

\* the outer source is done as well: the loop of forEach ends
Exhausted ==
    /\ chainPc = "pull"
    /\ innerIdx = InnerLen
    /\ outerIdx = Len(chainItems)
    /\ chainPc' = "done"
    /\ UNCHANGED <<inputVars, topDownVars, graphVars, parseVars, repoVars,
                   callVars, blameVars, scanVars, aggVars, chainItems, outerIdx, innerIdx,
                   pendingConsumers>>

\* forEach: consumer(item) is called and returns its promise
CallConsumer ==
    /\ chainPc = "deliver"
    /\ pendingConsumers' = pendingConsumers + 1
    /\ chainPc' = "await"
    /\ UNCHANGED <<inputVars, topDownVars, graphVars, parseVars, repoVars,
                   callVars, blameVars, scanVars, aggVars, chainItems, outerIdx, innerIdx>>

\* a promise of the consumer settles
ConsumerSettles ==
    /\ pendingConsumers > 0
    /\ pendingConsumers' = pendingConsumers - 1
    /\ UNCHANGED <<inputVars, topDownVars, graphVars, parseVars, repoVars,
                   callVars, blameVars, scanVars, aggVars, chainItems, outerIdx, innerIdx, chainPc>>

\* forEach without the await: the loop goes on while the promise is pending
ResumeWithoutAwait ==
    /\ chainPc = "await"
    /\ chainPc' = "pull"
    /\ UNCHANGED <<inputVars, topDownVars, graphVars, parseVars, repoVars,
                   callVars, blameVars, scanVars, aggVars, chainItems, outerIdx, innerIdx,
                   pendingConsumers>>

\* forEach: await consumer(item) resumes once the promise has settled
AwaitConsumer ==
    /\ chainPc = "await"
    /\ pendingConsumers = 0
    /\ chainPc' = "pull"
    /\ UNCHANGED <<inputVars, topDownVars, graphVars, parseVars, repoVars,
                   callVars, blameVars, scanVars, aggVars, chainItems, outerIdx, innerIdx,
                   pendingConsumers>>

NextChain ==
    \/ YieldInner
    \/ AdvanceOuter
    \/ Exhausted
    \/ CallConsumer
    \/ ConsumerSettles
    \/ AwaitConsumer

SpecChain == InitChain /\ [][NextChain]_vars

---------------------------------------------------------------------------
(* mostFrequent and bucket, called on their own *)

N_b == <<98>>

N_0 == <<48>>

N_1 == <<49>>

\* segment names, two of them array indices
SegmentNames == {P_a, N_b, N_0, N_1}

\* the numbers handed to bucket
BucketInputs == {Num(k) : k \in -1..(MaxBoundary + 1)} \cup {NaN}

\* ascending boundary lists
BoundaryLists ==
    {b \in SeqsUpTo({Num(k) : k \in 0..MaxBoundary}, MaxBuckets) :
         \A i \in 1..(Len(b) - 1) : b[i][2] <= b[i + 1][2]}

InitPure ==
    /\ \/ /\ callee = "mostFrequent"
          /\ callArgs \in {<<arr>> : arr \in SeqsUpTo(SegmentNames, MaxSegs) \ {<<>>}}
       \/ /\ callee = "bucket"
          /\ callArgs \in BucketInputs \X BoundaryLists
    /\ callResult = Undefined
    /\ callPc = "call"
    /\ IdleClustering
    /\ IdleParse
    /\ IdleRepo
    /\ IdleScan
    /\ IdleAggregate
    /\ IdleChain
    /\ IdleBlame

CallMostFrequent ==
    /\ callPc = "call"
    /\ callee = "mostFrequent"
    /\ callResult' = mostFrequent(callArgs[1])
    /\ callPc' = "done"
    /\ UNCHANGED <<callee, callArgs, blameVars, scanVars, aggVars, chainVars,
                   inputVars, topDownVars, graphVars, parseVars, repoVars>>

CallBucket ==
    /\ callPc = "call"
    /\ callee = "bucket"
    /\ callResult' = bucket(callArgs[1], callArgs[2])
    /\ callPc' = "done"
    /\ UNCHANGED <<callee, callArgs, blameVars, scanVars, aggVars, chainVars,
                   inputVars, topDownVars, graphVars, parseVars, repoVars>>

NextPure == CallMostFrequent \/ CallBucket

SpecPure == InitPure /\ [][NextPure]_vars

---------------------------------------------------------------------------
(* findRevision, doProcessFile1, execAsync: one file of a repository *)

\* "\n"
Newline == 10

\* "undefined"
S_undefined == <<117, 110, 100, 101, 102, 105, 110, 101, 100>>

\* "..HEAD"
S_dotsHead == <<46, 46, 72, 69, 65, 68>>

\* "?"
S_unknownAuthor == <<63>>

\* "0".repeat(40)
ZeroHash == [i \in 1..HashLen |-> 48]

\* String(v) of a string or undefined, as the + operator applies it
StringOf(v) == IF v = Undefined THEN S_undefined ELSE v

\* the lines of a text, each ended by "\n", as one string
TextOf(lines) == Flat([i \in 1..Len(lines) |-> Append(lines[i], Newline)])

\* the lines of a text in which every line is ended by "\n"
LinesOf(text) ==
    LET parts == Split(text, Newline) IN SubSeq(parts, 1, Len(parts) - 1)

\* what git blame --line-porcelain writes for the file
BlameTexts ==
    { TextOf(<<H_a, L_author_Al, L_time_17, L_content_x>>),
      TextOf(<<H_mixed, L_time_5, L_content_x, L_content_y>>) }

\* what git rev-list --max-count=1 --skip=n HEAD writes, as 'data' chunks:
\* nothing (fewer commits than n), or a hash and "\n" in one or two chunks
RevListOutputs ==
    { <<>>,
      <<Append(HashA, Newline)>>,
      <<SubSeq(HashA, 1, 20), Append(SubSeq(HashA, 21, HashLen), Newline)>> }

\* Date.now() at the time the rows are mapped: 20 s after the epoch, or 20
\* days later
Clock == {20 * MsPerSecond, 20 * MsPerSecond + 20 * MsPerDay}

\* the fields doProcessFile1 asks for
BlameFields ==
    IF boundaryAware THEN <<F_author, F_committer_time, F_commit>>
    ELSE <<F_author, F_committer_time>>

\* [0, 30, 300, 1000, 1000000]
DayBuckets == <<Num(0), Num(30), Num(300), Num(1000), Num(1000000)>>

\* the loop body of doProcessFile1 for one item: the rows to push
RowsOfItem(item, nowMs) ==
    LET masked == IF boundaryAware /\ revisionBoundary = item[3]
                  THEN <<S_unknownAuthor, Num(0), ZeroHash>>
                  ELSE item
        days_bucket == bucket(daysAgo(masked[2], nowMs), DayBuckets)
    IN  IF days_bucket # Num(-1) THEN <<<<masked[1], days_bucket, P_a_x>>>> ELSE <<>>

\* the loop of doProcessFile1 over the rows of git_blame_porcelain; a row is
\* [item[0], days_bucket, filePath] (lang and repoRoot are fixed by the file)
RowsOfItems(its, nowMs) ==
    Flat([i \in 1..Len(its) |-> RowsOfItem(its[i], nowMs)])

\* the arguments executeGitBlamePorcelain pushes between "--line-porcelain"
\* and "--"
RevisionArgs(boundary) == IF boundary # Undefined /\ boundary # <<>> THEN <<boundary>> ELSE <<>>

InitBlame ==
    /\ boundaryAware \in BOOLEAN
    /\ IF boundaryAware
       THEN /\ revListExit \in {0, 128}
            /\ revListChunks \in (IF revListExit = 0 THEN RevListOutputs ELSE {<<>>})
            /\ blamePc = "start"
       ELSE /\ revListExit = 0
            /\ revListChunks = <<>>
            /\ blamePc = "file"
    /\ blameText \in BlameTexts
    /\ now = 0
    /\ revisionBoundary = Undefined
    /\ blameArgs = <<>>
    /\ unread = <<>>
    /\ stdout = <<>>
    /\ items = <<>>
    /\ fileRows = <<>>
    /\ IdleClustering
    /\ IdleParse
    /\ IdleRepo
    /\ IdleScan
    /\ IdleAggregate
    /\ IdleChain
    /\ IdleCall

\* let revisionBoundary = await findRevision(repoRoot, 1000)
FindRevision ==
    /\ blamePc = "start"
    /\ revisionBoundary' =
           IF revListExit # 0 THEN Undefined
           ELSE LET boundaryCommit == Join(revListChunks, Newline)
                IN  IF boundaryCommit # <<>> THEN boundaryCommit \o S_dotsHead
                    ELSE Undefined
    /\ blamePc' = "file"
    /\ UNCHANGED <<now, revListExit, revListChunks, blameArgs, blameText, unread,
                   stdout, items, fileRows, boundaryAware>>
    /\ UNCHANGED <<callVars, scanVars, aggVars, chainVars,
                   inputVars, topDownVars, graphVars, parseVars, repoVars>>

\* doProcessFile1 up to its await: the file is no regular non-empty file and
\* [] is returned, or git blame is spawned by execAsync. Whether git accepts
\* the arguments and the file is for the repository to decide: the child
\* will write blameText and exit with 0, or write nothing and fail.
ProcessFile ==
    /\ blamePc = "file"
    /\ \/ /\ blamePc' = "skipped"
          /\ UNCHANGED <<blameArgs, unread>>
       \/ /\ blameArgs' = RevisionArgs(IF boundaryAware
                                       THEN StringOf(revisionBoundary) \o S_dotsHead
                                       ELSE Undefined)
          /\ \/ blamePc' = "spawned" /\ unread' = blameText
             \/ blamePc' = "failing" /\ unread' = <<>>
    /\ UNCHANGED <<now, revListExit, revListChunks, revisionBoundary, blameText,
                   stdout, items, fileRows, boundaryAware>>
    /\ UNCHANGED <<callVars, scanVars, aggVars, chainVars,
                   inputVars, topDownVars, graphVars, parseVars, repoVars>>

\* child.stdout.on("data", ...): the next chunk of the text, of any length
\* (the last of MaxChunks chunks takes what is left)
OnData ==
    /\ blamePc = "spawned"
    /\ unread # <<>>
    /\ Len(stdout) < MaxChunks
    /\ \E k \in 1..Len(unread) :
           /\ Len(stdout) = MaxChunks - 1 => k = Len(unread)
           /\ stdout' = Append(stdout, SubSeq(unread, 1, k))
           /\ unread' = SubSeq(unread, k + 1, Len(unread))
    /\ UNCHANGED <<now, revListExit, revListChunks, revisionBoundary, blameArgs,
                   blameText, items, fileRows, boundaryAware, blamePc>>
    /\ UNCHANGED <<callVars, scanVars, aggVars, chainVars,
                   inputVars, topDownVars, graphVars, parseVars, repoVars>>

\* child.on("close") with code 0: execAsync resolves with the chunks,
\* git_blame_porcelain parses them and doProcessFile1 maps the rows
OnClose ==
    /\ blamePc = "spawned"
    /\ unread = <<>>
    /\ items' = parsePorcelain(stdout, BlameFields)
    /\ \E nowMs \in Clock :
           /\ now' = nowMs
           /\ fileRows' = RowsOfItems(items', nowMs)
    /\ blamePc' = "done"
    /\ UNCHANGED <<revListExit, revListChunks, revisionBoundary, blameArgs,
                   blameText, unread, stdout, boundaryAware>>
    /\ UNCHANGED <<callVars, scanVars, aggVars, chainVars,
                   inputVars, topDownVars, graphVars, parseVars, repoVars>>

\* child.on("close") with another code: execAsync rejects and doProcessFile1
\* throws
OnCloseFailed ==
    /\ blamePc = "failing"
    /\ blamePc' = "failed"
    /\ UNCHANGED <<now, revListExit, revListChunks, revisionBoundary, blameArgs,
                   blameText, unread, stdout, items, fileRows, boundaryAware>>
    /\ UNCHANGED <<callVars, scanVars, aggVars, chainVars,
                   inputVars, topDownVars, graphVars, parseVars, repoVars>>

NextBlame ==
    \/ FindRevision
    \/ ProcessFile
    \/ OnData
    \/ OnClose
    \/ OnCloseFailed

SpecBlame == InitBlame /\ [][NextBlame]_vars

---------------------------------------------------------------------------
(* Properties of the top-down clusterFiles *)

\* the `files` lists of all returned clusters, concatenated
AllResultFiles == LET Files(c) == c.files IN Flat(Map(result, Files))

HasDuplicate(s) == \E i, j \in 1..Len(s) : i # j /\ s[i] = s[j]

\* the directory segments of a path (all segments but the last)
DirOf(str) == LET arr == Split(str, Slash) IN SubSeq(arr, 1, Len(arr) - 1)

IsSegPrefix(p, q) == Len(p) <= Len(q) /\ SubSeq(q, 1, Len(p)) = p

\* C1: when clusterFiles returns (either top-down variant), the concatenation
\* of the clusters' files holds every input path exactly as often as the
\* input does: nothing is dropped, nothing duplicated.
C1_Coverage ==
    pc = "done" =>
        /\ Len(AllResultFiles) = Len(files)
        /\ \A p \in Paths : Count(AllResultFiles, p) = Count(files, p)

\* a run that split the input, with a duplicate path in it
C1_Witness ==
    /\ pc = "done"
    /\ variant = "clusterFilesRecursively"
    /\ Len(result) >= 2
    /\ HasDuplicate(files)

\* the files of cluster c all sit directly in one directory that holds more
\* than clusterMaxSize input files and has no subdirectory with input files
SingleOverfullDirectory(c) ==
    \E i \in 1..Len(c.files) :
        LET d == DirOf(c.files[i])
        IN  /\ \A j \in 1..Len(c.files) : DirOf(c.files[j]) = d
            /\ Cardinality({k \in 1..Len(files) : DirOf(files[k]) = d}) > clusterMaxSize
            /\ \A k \in 1..Len(files) :
                   IsSegPrefix(d, DirOf(files[k])) => DirOf(files[k]) = d

\* C3: every returned cluster that is not a leftover cluster weighs at most
\* clusterMaxSize, unless its files all sit directly in one directory that
\* holds more than clusterMaxSize files and has no deeper subdivision.
C3_BoundRespecting ==
    pc = "done" =>
        \A i \in 1..Len(result) :
            (~result[i].isLeftovers /\ result[i].weight > clusterMaxSize)
                => SingleOverfullDirectory(result[i])

RECURSIVE Sum(_)
Sum(ns) == IF ns = <<>> THEN 0 ELSE Head(ns) + Sum(Tail(ns))

\* the longest input path, in segments
MaxSegments ==
    LET Segs(f) == Len(Split(f, Slash))
        lens == Range(Map(files, Segs))
    IN  IF lens = {} THEN 0 ELSE CHOOSE n \in lens : \A m \in lens : m <= n

\* what a cluster can still cost the loop: nothing once it is small enough or
\* marked unclusterable; otherwise the splits its files allow, each of which
\* can be preceded by as many descents as the longest path has segments
Potential(c) ==
    IF Len(c.files) <= clusterMaxSize \/ c.isUnclusterable THEN 0
    ELSE (2 * Len(c.files) - 1) * (MaxSegments + 2) - Len(c.path)

LoopMeasure(groups) == Sum(Map(groups, Potential))

\* C5: the while (changes) loop of clusterFiles ends and clusterFiles
\* returns, for every input list (paths without "/", duplicates, paths that
\* are prefixes of other paths) and every clusterMaxSize >= clusterMinSize >= 1:
\* wherever the loop stands, a pass that sets changes again strictly lowers
\* LoopMeasure, a natural number, so only finitely many passes do; the pass
\* after the last one leaves changes false and the function returns.
C5_Terminates ==
    (pc = "loop" /\ changes
        /\ PassChanges(variant, clusterGroups, clusterMaxSize, clusterMinSize))
    => LET next == FlatMapPass(variant, clusterGroups, clusterMaxSize, clusterMinSize)
       IN  /\ LoopMeasure(next) >= 0
           /\ LoopMeasure(next) < LoopMeasure(clusterGroups)

\* a returned run on a list with a duplicate, a path without "/" and a path
\* it is a prefix of
C5_Witness ==
    /\ pc = "done"
    /\ HasDuplicate(files)
    /\ P_a \in Range(files)
    /\ P_a_x \in Range(files)
    /\ Len(result) >= 2

---------------------------------------------------------------------------
(* Properties of the graph pass *)

\* the files held in the value lists of the nodes graph.collect returns
CollectedFiles ==
    LET Value(n) == Strs(n.value) IN Flat(Map(collect(g), Value))

\* C2: once bubbleMicroLeftoversRecursive has run on the tree of buildGraph,
\* once or repeatedly, every input file is held in the value list of exactly
\* one collected node (no file dropped, none duplicated).
C2_GraphCoverage ==
    passes >= 1 =>
        /\ Len(CollectedFiles) = Len(files)
        /\ \A p \in GraphPaths : Count(CollectedFiles, p) = Count(files, p)


\* the nodes below graphNode, each with its depth (graphNode itself at depth d)
RECURSIVE NodesWithDepth(_, _)
NodesWithDepth(graphNode, d) ==
    LET Sub(e) == NodesWithDepth(e.node, d + 1)
    IN  <<[node |-> graphNode, depth |-> d]>> \o Flat(Map(graphNode.children, Sub))

\* one for every node, and for every held file one more than the depth of the
\* node that holds it
TreeMeasure(graphNode) ==
    LET Cost(nd) == 1 + (nd.depth + 1) * Len(nd.node.value)
    IN  Sum(Map(NodesWithDepth(graphNode, 0), Cost))

\* the tree one further pass makes of g
NextPass == bubbleMicroLeftoversRecursive(g, clusterMaxSize, clusterMinSize)

\* a further pass leaves every node of g as it is (children map, value list
\* and size)
AtFixedPoint == NextPass = g

\* C6: repeated passes of bubbleMicroLeftoversRecursive over the tree of
\* buildGraph reach a fixed point after finitely many passes: wherever the
\* passes stand, a further pass either leaves the tree unchanged at every node
\* or strictly lowers TreeMeasure, a positive integer, so only finitely many
\* passes change the tree; and MaxPasses passes suffice for every tree of the
\* model.
C6_FixedPoint ==
    /\ AtFixedPoint \/ (TreeMeasure(NextPass) >= 1 /\ TreeMeasure(NextPass) < TreeMeasure(g))
    /\ passes = MaxPasses => AtFixedPoint

\* two passes changed the tree, and the third leaves it unchanged
C6_Witness ==
    LET built == buildGraph(FileInfos(files))
        first == bubbleMicroLeftoversRecursive(built, clusterMaxSize, clusterMinSize)
    IN  /\ passes = 2
        /\ first # built
        /\ g # first
        /\ AtFixedPoint


---------------------------------------------------------------------------
(* Properties of parsePorcelain *)

\* "Al"
S_Al == <<65, 108>>

\* "Bo"
S_Bo == <<66, 111>>

IsContentLine(line) == line # <<>> /\ line[1] = Tab

\* the content lines of hunk number h, each with the lines of the hunk that
\* precede it
HunkContents(h) ==
    LET hunk == hunks[h]
        F[i \in 0..Len(hunk)] ==
            IF i = 0 THEN <<>>
            ELSE IF IsContentLine(hunk[i])
                 THEN Append(F[i - 1], [hunk |-> h, before |-> SubSeq(hunk, 1, i - 1)])
                 ELSE F[i - 1]
    IN  F[Len(hunk)]

\* the content lines of the blame output, in input order
Contents ==
    LET F[h \in 0..Len(hunks)] ==
            IF h = 0 THEN <<>> ELSE F[h - 1] \o HunkContents(h)
    IN  F[Len(hunks)]

\* the last of the given lines among `lines`, <<>> when there is none
LastOf(lines, wanted) ==
    LET at == {i \in 1..Len(lines) : lines[i] \in wanted}
    IN  IF at = {} THEN <<>>
        ELSE lines[CHOOSE i \in at : \A j \in at : j <= i]

\* the value of row at the position of the field `name`
FieldOf(row, name) == row[IndexOfField(fields, name) + 1]

Requested(name) == IndexOfField(fields, name) >= 0

C9_NoLeakBetweenHunks ==
    parsePc = "done" =>
        \A k \in 1..Len(rows) :
            LET own == hunks[Contents[k].hunk]
            IN  /\ Requested(F_boundary) =>
                       FieldOf(rows[k], F_boundary) =
                           (IF L_boundary \in Range(own) THEN Num(1) ELSE Num(0))
                /\ (Requested(F_committer_time)
                        /\ LastOf(own, {L_time_17, L_time_5}) = <<>>) =>
                       FieldOf(rows[k], F_committer_time) = Num(0)

\* the hash of a header line: the 40 hex digits, without the marker
HashOfHeader(header) ==
    IF header = H_mixed THEN HashMixed ELSE HashA

\* C10: with "commit" requested, exactly the lines whose text before the
\* first space is 40 hex digits, with or without one marker character in
\* front, start a hunk: every row holds the hash of its own hunk's header,
\* without the marker.
C10_HeaderRecognition ==
    (parsePc = "done" /\ Requested(F_commit)) =>
        \A k \in 1..Len(rows) :
            FieldOf(rows[k], F_commit) = HashOfHeader(hunks[Contents[k].hunk][1])


---------------------------------------------------------------------------
(* Properties of forEachRepoFile *)

\* C7: every row forEachRepoFile yields for a file carries the path of the
\* cluster of filesClustered whose `files` list holds that file.
C7_OwnClusterPath ==
    \A r \in 1..Len(yielded) :
        \E c \in 1..Len(filesClustered) :
            /\ yielded[r].file \in Range(filesClustered[c].files)
            /\ yielded[r].clusterPath = filesClustered[c].path


---------------------------------------------------------------------------
(* Properties of the run and of the SIGINT listener *)

\* C11: the process is forced to end with process.exit(130) only when a
\* second SIGINT has been sent to it after the first: one signal alone,
\* however its listener interleaves with the catch of the per-file loop,
\* only requests the drain.
C11_ForcedExitNeedsSecondSignal ==
    (scanPc = "exited" /\ exitCode = ForcedExitCode) => signalsSent >= 2


\* a file is being processed: its extraction runs or its rows are handed on
FileInProgress == scanPc \in {"extracting", "yield"}

C13_FailureNeverAborts ==
    (fileFailed /\ ~sigintCaught) =>
        /\ ~rowLost
        /\ scanPc # "exited"
        /\ (scanPc = "loop" /\ rowsLeft = 0) \/ scanPc # "loop"
        /\ scanPc = "nextRepo" => fileIdx = FilesOfRepo
        /\ scanPc \in {"drained", "returned"} =>
               (repoIdx = Len(repoFileCounts) /\ fileIdx = FilesOfRepo)

\* after the failure of a file, the rows of a later file are handed on
C13_Witness ==
    /\ fileFailed
    /\ ~sigintCaught
    /\ scanPc = "yield"
    /\ rowsLeft = 1


\* the process has ended, by process.exit or because main has returned
RunEnded == scanPc \in {"exited", "returned"}

\* C14: whenever the target path does not exist or no git repository is
\* found, the process ends with a non-zero exit status.
C14_NonZeroExitWithoutRepository ==
    (RunEnded /\ (~targetExists \/ repoFileCounts = <<>>)) => exitCode # 0

\* C15: a run that was interrupted (sigintCaught set) and has drained
\* reports that its output may be incomplete before it ends.
C15_InterruptedRunIsReported ==
    [][(scanPc = "drained" /\ sigintCaught /\ scanPc' = "returned") => reported']_vars


---------------------------------------------------------------------------
(* Properties of aggregateRawStats *)

\* the consumed rows with primary key p and secondary key s
CountOf(p, s) ==
    Cardinality({k \in 1..Len(consumedItems) : consumedItems[k] = <<p, s>>})

\* C16: after any sequence of rows, stats[p][s] is the number of consumed
\* rows with the keys (p, s) for every pair seen, so every stored count is
\* at least 1 and the counts add up to the number of rows; a pair never
\* seen is absent.
C16_CountsMatchRows ==
    \A p \in StatKeys, s \in StatKeys :
        LET stored == p \in DOMAIN stats /\ s \in DOMAIN stats[p]
        IN  IF CountOf(p, s) = 0 THEN ~stored
            ELSE stored /\ stats[p][s] = Num(CountOf(p, s))


---------------------------------------------------------------------------
(* Properties of the generator chain *)

\* C17: backpressure. No item is taken from the outer source or from an
\* inner generator while a promise of the consumer is pending, and flatMap
\* takes the next outer item only when the current inner generator has
\* yielded all its items.
C17_Backpressure ==
    [][/\ (innerIdx' # innerIdx \/ outerIdx' # outerIdx) => pendingConsumers = 0
       /\ outerIdx' # outerIdx => innerIdx = InnerLen]_vars

\* the consumer is busy with an item while the inner generator and the
\* outer source both have more
C17_Witness ==
    /\ chainPc = "await"
    /\ pendingConsumers = 1
    /\ innerIdx < InnerLen
    /\ outerIdx < Len(chainItems)


---------------------------------------------------------------------------
(* Properties of the result of clusterFiles *)

\* C18: clusterFiles of an empty file list returns no cluster.
C18_EmptyInputEmptyResult ==
    (pc = "done" /\ files = <<>>) => result = <<>>

\* C19: clusterFiles of a one-element list [p] returns exactly one cluster,
\* with path p, files [p], weight 1 and isLeftovers false.
C19_SingleFileOwnCluster ==
    (pc = "done" /\ Len(files) = 1) =>
        result = <<[path |-> files[1], files |-> files, weight |-> 1,
                    isLeftovers |-> FALSE]>>

\* s comes before t in the order of the code units (the < of strings)
LexLess(s, t) ==
    \E i \in 1..Len(t) :
        /\ \A j \in 1..(i - 1) : j <= Len(s) /\ s[j] = t[j]
        /\ (i > Len(s) \/ s[i] < t[i])

\* C20: the clusters clusterFiles returns are in descending lexicographic
\* order of their path strings.
C20_DescendingPathOrder ==
    pc = "done" =>
        \A k \in 1..(Len(result) - 1) :
            ~LexLess(result[k].path, result[k + 1].path)


---------------------------------------------------------------------------
(* Properties of mostFrequent and bucket *)

MostFrequentReturned == callee = "mostFrequent" /\ callPc = "done"

BucketReturned == callee = "bucket" /\ callPc = "done"

\* the position of the first occurrence of x in arr
FirstIndex(arr, x) == CHOOSE i \in 1..Len(arr) : arr[i] = x /\ \A j \in 1..(i - 1) : arr[j] # x

\* C21: mostFrequent returns a segment of maximal frequency, and among the
\* segments of maximal frequency the one that occurs first in the list, also
\* when the names look like integers.
C21_FirstOfTheMostFrequent ==
    MostFrequentReturned =>
        LET arr == callArgs[1]
        IN  /\ callResult \in Range(arr)
            /\ \A x \in Range(arr) :
                   /\ Count(arr, x) <= Count(arr, callResult)
                   /\ Count(arr, x) = Count(arr, callResult)
                          => FirstIndex(arr, callResult) <= FirstIndex(arr, x)

\* the indices i (of the source) with buckets[i-1] < n < buckets[i]
Between(n, buckets) ==
    {i \in 1..(Len(buckets) - 1) : NumLess(buckets[i], n) /\ NumLess(n, buckets[i + 1])}

\* C22: with ascending boundaries bucket returns buckets[i-1] for the smallest
\* i with buckets[i-1] < n < buckets[i], and -1 for every n that is not
\* strictly between two adjacent boundaries, so for every n equal to a boundary.
C22_StrictlyBetweenBoundaries ==
    BucketReturned =>
        LET n == callArgs[1]
            buckets == callArgs[2]
        IN  IF Between(n, buckets) = {}
            THEN callResult = Num(-1)
            ELSE \E i \in Between(n, buckets) :
                     /\ \A j \in Between(n, buckets) : i <= j
                     /\ callResult = buckets[i]

\* a number equal to an inner boundary has been answered with -1
C22_Witness ==
    /\ BucketReturned
    /\ Len(callArgs[2]) = 3
    /\ callArgs[1] = callArgs[2][2]
    /\ callArgs[2][1] # callArgs[2][2]
    /\ callResult = Num(-1)

---------------------------------------------------------------------------
(* Properties of the steps on the tree *)

\* the files of the list fs, as a bag: how often each path occurs
SameFiles(fs, gs) ==
    /\ Len(fs) = Len(gs)
    /\ \A p \in GraphPaths : Count(Strs(fs), p) = Count(Strs(gs), p)

\* C23: after bubbleMicroLeftoversRecursive has processed a node whose size
\* is at most clusterMaxSize, the node has no children left and its value
\* list holds every file of its former subtree. Stated for the root, whose
\* subtree holds all the files, and for a size within clusterMaxSize both
\* before and after the call.
C23_SmallSubtreeCollapsed ==
    [][(g.size <= clusterMaxSize /\ g'.size <= clusterMaxSize)
           => (g'.children = <<>> /\ SameFiles(g'.value, flatten(g)))]_vars

\* the nodes of the tree as unpackSmallest meets them in one call of
\* bubbleMicroLeftoversRecursive(graphNode, ...): each with its children
\* already processed
RECURSIVE UnpackInputs(_)
UnpackInputs(graphNode) ==
    LET Rec(e) == [e EXCEPT !.node =
                      bubbleMicroLeftoversRecursive(e.node, clusterMaxSize, clusterMinSize)]
        Sub(e) == UnpackInputs(e.node)
    IN  <<[graphNode EXCEPT !.children = Map(@, Rec)]>>
            \o Flat(Map(graphNode.children, Sub))

\* C24: whenever unpackSmallest absorbs a child, the node's value list holds
\* at most clusterMaxSize files afterwards; and it leaves the node as it is
\* whenever the node holds at least clusterMinSize files directly.
C24_AbsorbsOnlyWhatFits ==
    \A i \in 1..Len(UnpackInputs(g)) :
        LET graphNode == UnpackInputs(g)[i]
            after == unpackSmallest(graphNode, clusterMaxSize, clusterMinSize)
        IN  /\ Len(after.children) < Len(graphNode.children)
                   => Len(after.value) <= clusterMaxSize
            /\ Len(graphNode.value) >= clusterMinSize => after = graphNode

\* C25: in the tree of buildGraph and after every step on it, the size of
\* each node is the number of files held in its subtree: its own value list
\* plus those of all its descendants.
C25_SizeIsSubtreeFileCount ==
    \A i \in 1..Len(NodesWithDepth(g, 0)) :
        LET graphNode == NodesWithDepth(g, 0)[i].node
        IN  graphNode.size = Len(flatten(graphNode))

---------------------------------------------------------------------------
(* Further properties of the top-down clusterFiles *)

\* C26: in both top-down variants a cluster is split only when the
\* peeled-off cluster and the remainder both hold at least clusterMinSize
\* files; hence no returned cluster, leftover or not, has fewer than
\* clusterMinSize files unless it is the only cluster returned.
C26_SplitsKeepMinimum ==
    /\ \A i \in 1..Len(clusterGroups) :
           LET subclusters ==
                   SplitCluster(variant, clusterGroups[i], clusterMaxSize, clusterMinSize)
           IN  Len(subclusters) = 2
                   => \A j \in 1..2 : Len(subclusters[j].files) >= clusterMinSize
    /\ (pc = "done" /\ Len(result) > 1)
           => \A i \in 1..Len(result) : result[i].weight >= clusterMinSize

\* C28: the path segments of every cluster, while the loop runs and in the
\* result, are a segment-wise prefix of the path segments of every file of
\* that cluster.
C28_ClusterPathIsPrefix ==
    /\ \A i \in 1..Len(clusterGroups) :
           \A j \in 1..Len(clusterGroups[i].files) :
               IsSegPrefix(clusterGroups[i].path, clusterGroups[i].files[j].arr)
    /\ \A i \in 1..Len(result) :
           \A j \in 1..Len(result[i].files) :
               IsSegPrefix(IF result[i].path = <<>> THEN <<>>
                           ELSE Split(result[i].path, Slash),
                           Split(result[i].files[j], Slash))

\* a cluster with a path two segments deep has been returned
C28_Witness ==
    /\ pc = "done"
    /\ \E i \in 1..Len(result) :
           /\ result[i].files # <<>>
           /\ Len(Split(result[i].path, Slash)) >= 2

---------------------------------------------------------------------------
(* Properties of the processing of one file *)

\* git blame has been invoked for the file
BlameInvoked == blamePc \in {"spawned", "failing", "done", "failed"}

\* C27: when findRevision returns undefined (it failed, or the repository has
\* fewer commits than requested), doProcessFile1 invokes blame with no
\* revision-range argument.
C27_NoBoundaryNoRange ==
    (boundaryAware /\ BlameInvoked /\ revisionBoundary = Undefined)
        => blameArgs = <<>>

\* C29: for a file whose blame succeeded, doProcessFile1 returns exactly one
\* row per row of parsePorcelain: no line is dropped because of its age.
C29_NoRowDroppedForItsAge ==
    blamePc = "done" => Len(fileRows) = Len(items)

\* C30: the rows git_blame_porcelain returns depend on the text of the blame
\* output only: whatever the 'data' chunks were, they are the rows of
\* parsePorcelain on the lines of the text.
C30_RowsIndependentOfChunking ==
    blamePc = "done" => items = parsePorcelain(LinesOf(blameText), BlameFields)

=============================================================================
